---- MODULE Spec2Model ----
(***************************************************************************)
(* Model of run_summarization.py: the multi-document encoder               *)
(* (preprocess_function), the boundary padder (pad_customized_list), the   *)
(* phases of main (flags, dataset maps, training, evaluation, prediction)  *)
(* and the attention analysis of the prediction loop.                      *)
(*                                                                         *)
(* Text is modelled at word level: a source text is a sequence of words,   *)
(* a word being either the passage break " <REVBREAK> " (REVBREAK) or a    *)
(* content word, named by the vocabulary id the tokenizer gives it.        *)
(* A passage with no content word is an empty or whitespace-only passage.  *)
(* Positions and offsets keep Python's 0-based values; a TLA+ sequence s   *)
(* holds Python's s[i] at s[i+1].                                          *)
(*                                                                         *)
(* Modelled run: use_original_bart unset (the multi-document branch of     *)
(* preprocess_function), source_prefix unset (prefix == ""), prediction    *)
(* with one example per step (the code's "since single batch"), fp16 off   *)
(* (the collator adds no padding to a batch of one).                       *)
(***************************************************************************)
EXTENDS Integers, Sequences, FiniteSets, TLC

\* ------------------------------------------------------------- bounds
MaxBatch == 2
MaxPassages == 2
MaxPsgLen == 2
MaxSrcLen == 4
MaxTgtLen == 2
MaxPadRows == 3
MaxPadLen == 3
\* generation: beam slots, decoder and encoder layers, attention heads,
\* decoding steps
NumBeams == 2
NumLayers == 2
NumHeads == 2
MaxSteps == 2

\* ------------------------------------------------- tokenizer constants
\* tokenizer.bos_token_id, pad_token_id, eos_token_id (BART: 0, 1, 2)
bos_token_id == 0
pad_token_id == 1
eos_token_id == 2
\* tokenizer.model_max_length: the length tokenizer.encode pads to when
\* padding="max_length" is given without max_length (1024 for BART, scaled)
model_max_length == 4
\* data_args.max_target_length / val_max_target_length (scaled)
max_target_length == 3
\* the passage break of source.split(" <REVBREAK> ")
REVBREAK == -2
\* the padding value of pad_customized_list
SepPad == -1
\* the label value the loss ignores
IgnoreIndex == -100

VARIABLES
    cfg,                \* model_args / data_args read by the code
    raw,                \* the (source, target) pairs the loop has taken from the batch
    pc,                 \* "loop" | "built" | "raised" | "done" | "print_raised" |
                        \* "pad" | "padded" | "idle"
    input_ids,          \* local of the loop body
    sep_positions,      \* local of the loop body
    input_ids_list,
    labels_list,
    sep_positions_list,
    data,               \* the returned BatchEncoding
    step,               \* number of rows the prediction loop has analyzed
    analysis,           \* per analyzed row: the segments and rows the analysis used
    args,               \* training_args.do_* and the remaining model_args of main
    main_pc,            \* position of main
    config,             \* the flags main sets on the configuration object
    model,              \* the attributes main sets on the model
    performed,          \* the work main has done, in order
    files,              \* the files main has opened for writing, in order
    writer,             \* the lines written to pred.txt
    output,             \* what generate returned for the current example
    processed_cross_attn,
    cross_attn_analysis_list,
    self_attn_analysis_list,
    self_doc_attn_analysis_list

\* the variables of preprocess_function and of the segment derivation
encVars == <<raw, pc, input_ids, sep_positions, input_ids_list, labels_list,
             sep_positions_list, analysis>>

\* the variables of main
mainVars == <<args, main_pc, config, model, performed, files, writer, output,
              processed_cross_attn, cross_attn_analysis_list,
              self_attn_analysis_list, self_doc_attn_analysis_list>>

vars == <<cfg, raw, pc, input_ids, sep_positions, input_ids_list, labels_list,
          sep_positions_list, data, step, analysis, args, main_pc, config, model,
          performed, files, writer, output, processed_cross_attn,
          cross_attn_analysis_list, self_attn_analysis_list,
          self_doc_attn_analysis_list>>

\* ------------------------------------------------------ Python helpers
Min(a, b) == IF a < b THEN a ELSE b
Max(a, b) == IF a > b THEN a ELSE b

\* s[:n], n of either sign
SliceTo(s, n) ==
    IF n >= 0 THEN SubSeq(s, 1, Min(n, Len(s)))
    ELSE SubSeq(s, 1, Max(0, Len(s) + n))

\* s[1:-1]
StripEnds(s) == SubSeq(s, 2, Len(s) - 1)

\* a // b for b > 0 (floor division)
FloorDiv(a, b) == a \div b

Repeat(x, n) == [i \in 1..n |-> x]

\* ----------------------------------------------------------- tokenizer
\* padding = "max_length" if data_args.pad_to_max_length else False
Padding(c) == IF c.pad_to_max_length THEN "max_length" ELSE "False"

\* tokenizer.encode(text, max_length=..., padding=..., truncation=...):
\* <s> words </s>, cut to max_length when truncation is on (the specials are
\* kept), then padded with <pad> up to max_length when padding="max_length".
\* Called without max_length (max_len = -1 here), padding="max_length" pads
\* to tokenizer.model_max_length and nothing is cut.
TokenizerEncode(text, max_len, padding, truncation) ==
    LET room == IF max_len >= 2 THEN max_len - 2 ELSE 0
        words == IF truncation /\ max_len >= 0 /\ Len(text) > room
                 THEN SubSeq(text, 1, room) ELSE text
        ids == <<bos_token_id>> \o words \o <<eos_token_id>>
        pad_to == IF max_len >= 0 THEN max_len ELSE model_max_length
    IN  IF padding = "max_length" /\ Len(ids) < pad_to
        THEN ids \o Repeat(pad_token_id, pad_to - Len(ids))
        ELSE ids

\* ------------------------------------------------ preprocess_function
\* source.split(" <REVBREAK> ")
RECURSIVE Split(_)
Split(text) ==
    IF \E i \in 1..Len(text) : text[i] = REVBREAK
    THEN LET i == CHOOSE i \in 1..Len(text) :
                      /\ text[i] = REVBREAK
                      /\ \A j \in 1..(i - 1) : text[j] # REVBREAK
         IN  <<SubSeq(text, 1, i - 1)>> \o Split(SubSeq(text, i + 1, Len(text)))
    ELSE <<text>>

\* reviews = [x for x in reviews if x.strip() != ""]
NonEmpty(x) == Len(x) > 0
Reviews(source) == SelectSeq(Split(source), NonEmpty)

\* psg_len_limit = (data_args.max_source_length - len(reviews)) // len(reviews)
PsgLenLimit(k, c) == FloorDiv(c.max_source_length - k, k)

\* rev_ids = tokenizer.encode(source, padding=padding)[1:-1], then
\* rev_ids[:psg_len_limit] when per_passage_source_length_limit is set
RevIds(review, k, c) ==
    LET rev_ids == StripEnds(TokenizerEncode(review, -1, Padding(c), FALSE))
    IN  IF c.per_passage_source_length_limit
        THEN SliceTo(rev_ids, PsgLenLimit(k, c))
        ELSE rev_ids

\* the inner loop over reviews, from review i on: input_ids.extend(...) and
\* sep_positions.append(len(input_ids))
RECURSIVE EncodeReviews(_, _, _, _, _)
EncodeReviews(reviews, i, ids, seps, c) ==
    IF i > Len(reviews)
    THEN [input_ids |-> ids, sep_positions |-> seps]
    ELSE LET ids2 == ids \o <<bos_token_id>> \o RevIds(reviews[i], Len(reviews), c)
         IN  EncodeReviews(reviews, i + 1, ids2, Append(seps, Len(ids2)), c)

DropLastSepKeepsAll(seps) == seps

\* sep_positions = sep_positions[:-1]
DropLastSep(seps) == SliceTo(seps, -1)

TruncateIdsOneMore(ids, max_source_length) ==
    Append(SliceTo(ids, max_source_length), eos_token_id)

\* input_ids = input_ids[:data_args.max_source_length-1] + [tokenizer.eos_token_id]
TruncateIds(ids, max_source_length) ==
    Append(SliceTo(ids, max_source_length - 1), eos_token_id)

TruncateSepOffByOne(seps, max_source_length) ==
    LET Keep(x) == x < max_source_length IN SelectSeq(seps, Keep)

TruncateSepKeepsAll(seps, max_source_length) == seps

\* sep_positions = [x for x in sep_positions if x < data_args.max_source_length-1]
TruncateSep(seps, max_source_length) ==
    LET Keep(x) == x < max_source_length - 1 IN SelectSeq(seps, Keep)

\* decoder_token_ids = tokenizer.encode(target, max_length=max_target_length,
\*                                      padding=padding, truncation=True)
EncodeTarget(target, c) ==
    TokenizerEncode(target, max_target_length, Padding(c), TRUE)

MaskLabelsWheneverPadded(ids, c) ==
    IF Padding(c) = "max_length"
    THEN [i \in 1..Len(ids) |->
            IF ids[i] # pad_token_id THEN ids[i] ELSE IgnoreIndex]
    ELSE ids

\* the replacement of pad_token_id by -100 in decoder_token_ids
MaskLabels(ids, c) ==
    IF Padding(c) = "max_length" /\ c.ignore_pad_token_for_loss
    THEN [i \in 1..Len(ids) |->
            IF ids[i] # pad_token_id THEN ids[i] ELSE IgnoreIndex]
    ELSE ids

\* if len(sep_positions) == 0: continue, else the three appends
AppendIds(list, ids, seps) == IF Len(seps) = 0 THEN list ELSE Append(list, ids)
AppendSep(list, seps) == IF Len(seps) = 0 THEN list ELSE Append(list, seps)
AppendLabelsBeforeFilter(list, labels, seps) == Append(list, labels)
AppendLabels(list, labels, seps) == IF Len(seps) = 0 THEN list ELSE Append(list, labels)

\* def pad_customized_list(input_list)
RECURSIVE MaxLenOf(_)
MaxLenOf(input_list) ==
    IF Len(input_list) = 0 THEN 0
    ELSE Max(Len(Head(input_list)), MaxLenOf(Tail(input_list)))

pad_customized_list(input_list) ==
    IF Len(input_list) = 0 \/ Len(input_list[1]) = 0
    THEN input_list
    ELSE LET max_len == MaxLenOf(input_list)
         IN  [i \in 1..Len(input_list) |->
                input_list[i] \o Repeat(SepPad, max_len - Len(input_list[i]))]

\* ----------------------------------------------------- analysis (main)
\* zip(sep_positions, sep_positions[1:]+[src_len])
DocSegments(seps, src_len) ==
    LET ends == Tail(seps) \o <<src_len>>
    IN  [i \in 1..Len(seps) |-> <<seps[i], ends[i]>>]

\* ------------------------------------------------------ main: the flags
\* config.enc_cross_doc, config.doc_dec, config.no_posres_only
ConfigFlags(a) ==
    [enc_cross_doc |-> a.enc_cross_doc,
     doc_dec |-> IF a.enc_cross_doc THEN a.doc_dec ELSE FALSE,
     no_posres_only |-> IF a.enc_cross_doc THEN a.no_posres_only ELSE FALSE]

\* model.enc_cross_doc, model.doc_dec
ModelAttributes(a) ==
    [enc_cross_doc |-> a.enc_cross_doc, doc_dec |-> a.doc_dec]

\* ------------------------------------------- main: attention analysis
\* Attention weights are integers. A mean over layers or heads is kept as
\* the sum (the mean times the number of layers or heads, the same factor
\* for every entry of a tensor), so sums over source positions stay exact.

\* x[i] of a tensor dimension of size n: a negative i counts from the end,
\* an i outside -n..n-1 raises IndexError
InRange(i, n) == -n <= i /\ i < n
PyIndex(i, n) == IF i < 0 THEN i + n ELSE i

\* a bound of the slice x[start:end] of a dimension of size n
SliceBound(i, n) == IF i < 0 THEN Max(i + n, 0) ELSE Min(i, n)

RECURSIVE SumRange(_, _, _)
SumRange(f, lo, hi) == IF lo > hi THEN 0 ELSE f[lo] + SumRange(f, lo + 1, hi)

\* torch.sum(x[start:end]) of a vector over the positions 0..n-1
SumSlice(x, start, end, n) ==
    SumRange(x, SliceBound(start, n), SliceBound(end, n) - 1)

\* sum(x) of [sum(x)/len(x) for x in cross_attentions]: over the layers of
\* one decoding step, a tensor (num_beams, num_heads, 1, src_len)
LayerSum(x) ==
    [b \in DOMAIN x[1] |-> [h \in DOMAIN x[1][b] |-> [p \in DOMAIN x[1][b][h] |->
        SumRange([l \in 1..Len(x) |-> x[l][b][h][p]], 1, Len(x))]]]

\* torch.mean(cross_attn[idx], dim = 0): over the heads of one beam slot
HeadSum(y) ==
    [p \in DOMAIN y[1] |-> SumRange([h \in 1..Len(y) |-> y[h][p]], 1, Len(y))]

\* for idx, cross_attn in zip(beam_indices, avg_cross_attention[:len(beam_indices)])
ZipLen(beam_indices, cross_attentions) == Min(Len(beam_indices), Len(cross_attentions))

\* cross_attn[idx] raises at some step of the loop
SelectionRaises(beam_indices, cross_attentions) ==
    \E t \in 1..ZipLen(beam_indices, cross_attentions) :
        ~InRange(beam_indices[t], NumBeams)

SelectedFromLastFrames(beam_indices, cross_attentions) ==
    [t \in 1..ZipLen(beam_indices, cross_attentions) |->
        HeadSum(LayerSum(cross_attentions[
                    Len(cross_attentions) - ZipLen(beam_indices, cross_attentions) + t])
                [PyIndex(beam_indices[t], NumBeams)])]

\* processed_cross_attn = torch.cat(selected_cross_attention, dim=0)
SelectedCrossAttention(beam_indices, cross_attentions) ==
    [t \in 1..ZipLen(beam_indices, cross_attentions) |->
        HeadSum(LayerSum(cross_attentions[t])[PyIndex(beam_indices[t], NumBeams)])]

\* row t, column i: torch.sum(attn[t, start_i:end_i]) over the segments
DocAttn(attn, seps, src_len) ==
    LET segments == DocSegments(seps, src_len)
    IN  [t \in 1..Len(attn) |-> [i \in 1..Len(segments) |->
            SumSlice(attn[t], segments[i][1], segments[i][2], src_len)]]

\* torch.mean(torch.std(softmax(m), unbiased=False, dim=-1)). Softmax and the
\* standard deviation are over reals; the model keeps the sum over the rows
\* of (largest - smallest entry), which is 0 exactly when the scalar is 0:
\* softmax keeps equal entries equal and unequal entries unequal, and the
\* population standard deviation of a row is 0 exactly when its entries are
\* equal.
RowSpread(row) ==
    LET vals == { row[i] : i \in 1..Len(row) }
    IN  (CHOOSE v \in vals : \A w \in vals : w <= v)
            - (CHOOSE v \in vals : \A w \in vals : v <= w)

SoftmaxStd(m) == SumRange([t \in 1..Len(m) |-> RowSpread(m[t])], 1, Len(m))

\* sum(encoder_attentions) / len(...), then torch.mean(..., dim=1): row q
\* is the attention of source position q over the source positions
AvgSelfAttention(encoder_attentions) ==
    LET x == encoder_attentions
    IN  [q \in DOMAIN x[1][1] |-> [p \in DOMAIN x[1][1][q] |->
            SumRange([l \in 1..Len(x) |->
                SumRange([h \in 1..Len(x[l]) |-> x[l][h][q][p]], 1, Len(x[l]))],
                1, Len(x))]]

\* doc_token_attn = avg_self_attention[:, sep_positions, :]
DocTokenAttn(avg_self_attention, seps, src_len) ==
    [i \in 1..Len(seps) |-> avg_self_attention[PyIndex(seps[i], src_len)]]

\* torch.mean(torch.masked_select(doc_self_attn, eye)): the diagonal, kept
\* as the fraction num / den
SelfDocAttnWeights(doc_self_attn) ==
    [num |-> SumRange([i \in 1..Len(doc_self_attn) |-> doc_self_attn[i][i]],
                      1, Len(doc_self_attn)),
     den |-> Len(doc_self_attn)]

\* ---------------------------------------------------------- the inputs
\* Word t of the j-th passage of a source: every word of a source is its own
\* vocabulary id, above the special ids.
Word(j, t) == eos_token_id + (j - 1) * MaxPsgLen + t
Passage(j, n) == [t \in 1..n |-> Word(j, t)]

RECURSIVE Join(_, _)
Join(lens, j) ==
    IF j > Len(lens) THEN <<>>
    ELSE IF j = 1 THEN Passage(1, lens[1]) \o Join(lens, 2)
    ELSE <<REVBREAK>> \o Passage(j, lens[j]) \o Join(lens, j + 1)

\* sources of 1..MaxPassages passages of 0..MaxPsgLen words each
Sources ==
    { Join(lens, 1) : lens \in UNION { [1..k -> 0..MaxPsgLen] : k \in 1..MaxPassages } }

Targets == { [t \in 1..n |-> eos_token_id + t] : n \in 0..MaxTgtLen }

Configs ==
    [ max_source_length : 0..MaxSrcLen,
      per_passage_source_length_limit : BOOLEAN,
      pad_to_max_length : BOOLEAN,
      ignore_pad_token_for_loss : BOOLEAN,
      model_analysis : BOOLEAN,
      analyze_cross_attn : BOOLEAN,
      analyze_self_attn : BOOLEAN ]

NoData == [input_ids |-> <<>>, labels |-> <<>>, sep_positions |-> <<>>]

\* --------------------------------------------------------------- main
\* training_args.do_train / do_eval / do_predict, whether
\* model_args.model_analysis_file is given, and the architecture flags
Args ==
    [ do_train : BOOLEAN, do_eval : BOOLEAN, do_predict : BOOLEAN,
      model_analysis_file : BOOLEAN,
      enc_cross_doc : BOOLEAN, doc_dec : BOOLEAN, no_posres_only : BOOLEAN ]

NoFlags == [enc_cross_doc |-> FALSE, doc_dec |-> FALSE, no_posres_only |-> FALSE]
NoAttributes == [enc_cross_doc |-> FALSE, doc_dec |-> FALSE]
NoOutput == [steps |-> 0, beam_indices |-> <<>>]

\* The attention weights generate returns for the e-th test example. Every
\* weight is its own integer, made of the example, the decoding step (or the
\* attending position), the beam slot and the attended position, so the
\* origin of every entry of a result can be read off.
CrossWeight(e, t, l, b, h, p) == 10 * (1000 * e + 100 * t + 10 * b + p) + l + h
SelfWeight(e, l, h, q, p) == 10 * (1000 * e + 10 * q + p * p) + l + h

\* output.cross_attentions: per decoding step, per layer, a tensor
\* (num_beams, num_heads, 1, src_len)
CrossAttentions(e, steps, src_len) ==
    [t \in 1..steps |-> [l \in 1..NumLayers |-> [b \in 0..(NumBeams - 1) |->
        [h \in 1..NumHeads |-> [p \in 0..(src_len - 1) |->
            CrossWeight(e, t, l, b, h, p)]]]]]

\* output.encoder_attentions: per layer a tensor (1, num_heads, src_len, src_len)
EncoderAttentions(e, src_len) ==
    [l \in 1..NumLayers |-> [h \in 1..NumHeads |-> [q \in 0..(src_len - 1) |->
        [p \in 0..(src_len - 1) |-> SelfWeight(e, l, h, q, p)]]]]

\* what generate returns besides the tokens: the number of decoding steps
\* with a cross-attention frame and the beam backtrace of the returned
\* hypothesis, no longer than the frames
GenOutputs ==
    { o \in [ steps : 1..MaxSteps,
              beam_indices : UNION { [1..n -> (-1)..NumBeams] : n \in 1..MaxSteps } ] :
        Len(o.beam_indices) <= o.steps }

\* a test set: each example a source and an empty summary
TestExamples == { [source |-> s, target |-> <<>>] : s \in Sources }
TestBatches == UNION { [1..n -> TestExamples] : n \in 1..MaxBatch }

\* preprocess_function raises on exs (the division of the per-passage budget)
PreprocessRaises(exs, c) ==
    /\ c.per_passage_source_length_limit
    /\ \E i \in 1..Len(exs) : Len(Reviews(exs[i].source)) = 0

\* the encoder options main runs with here; the encoder's own
\* specifications cover the others
MainConfigs ==
    { c \in Configs : /\ c.max_source_length = MaxSrcLen
                      /\ ~c.per_passage_source_length_limit
                      /\ ~c.pad_to_max_length
                      /\ c.ignore_pad_token_for_loss }

\* the state of main while a dataset map runs preprocess_function
MainInMap ==
    /\ args = [do_train |-> FALSE, do_eval |-> FALSE, do_predict |-> TRUE,
               model_analysis_file |-> TRUE, enc_cross_doc |-> FALSE,
               doc_dec |-> FALSE, no_posres_only |-> FALSE]
    /\ main_pc = "map"
    /\ config = ConfigFlags(args)
    /\ model = ModelAttributes(args)
    /\ performed = <<>>
    /\ files = <<>>
    /\ writer = <<>>
    /\ output = NoOutput
    /\ processed_cross_attn = <<>>
    /\ cross_attn_analysis_list = <<>>
    /\ self_attn_analysis_list = <<>>
    /\ self_doc_attn_analysis_list = <<>>

\* ------------------------------------------------------------- actions
Init ==
    /\ cfg \in Configs
    /\ raw = <<>>
    /\ pc = "loop"
    /\ input_ids = <<>>
    /\ sep_positions = <<>>
    /\ input_ids_list = <<>>
    /\ labels_list = <<>>
    /\ sep_positions_list = <<>>
    /\ data = NoData
    /\ step = 0
    /\ analysis = <<>>
    /\ MainInMap

BuildExampleCarry(source, target) ==
    /\ pc = "loop"
    /\ Len(raw) < MaxBatch
    /\ raw' = Append(raw, [source |-> source, target |-> target])
    /\ LET reviews == Reviews(source)
       IN  IF cfg.per_passage_source_length_limit /\ Len(reviews) = 0
           THEN /\ pc' = "raised"
                /\ UNCHANGED <<input_ids, sep_positions>>
           ELSE LET enc == EncodeReviews(reviews, 1, input_ids, <<0>>, cfg)
                IN  /\ input_ids' = Append(enc.input_ids, eos_token_id)
                    /\ sep_positions' = DropLastSep(enc.sep_positions)
                    /\ pc' = "built"
    /\ UNCHANGED <<cfg, input_ids_list, labels_list, sep_positions_list, data,
                   step, analysis>>
    /\ UNCHANGED mainVars

\* One iteration of "for (source, target) in zip(inputs, targets)", up to
\* input_ids.append(tokenizer.eos_token_id). With no usable passage the
\* per-passage budget divides by zero and the exception leaves the function.
BuildExample(source, target) ==
    /\ pc = "loop"
    /\ Len(raw) < MaxBatch
    /\ raw' = Append(raw, [source |-> source, target |-> target])
    /\ LET reviews == Reviews(source)
       IN  IF cfg.per_passage_source_length_limit /\ Len(reviews) = 0
           THEN /\ pc' = "raised"
                /\ UNCHANGED <<input_ids, sep_positions>>
           ELSE LET enc == EncodeReviews(reviews, 1, <<>>, <<0>>, cfg)
                IN  /\ input_ids' = Append(enc.input_ids, eos_token_id)
                    /\ sep_positions' = DropLastSep(enc.sep_positions)
                    /\ pc' = "built"
    /\ UNCHANGED <<cfg, input_ids_list, labels_list, sep_positions_list, data,
                   step, analysis>>
    /\ UNCHANGED mainVars

\* The rest of the iteration: global truncation, target encoding, label
\* masking, then drop or append.
FinishExample ==
    /\ pc = "built"
    /\ LET long == Len(input_ids) > cfg.max_source_length
           ids == IF long THEN TruncateIds(input_ids, cfg.max_source_length)
                  ELSE input_ids
           seps == IF long THEN TruncateSep(sep_positions, cfg.max_source_length)
                   ELSE sep_positions
           decoder_token_ids == MaskLabels(EncodeTarget(raw[Len(raw)].target, cfg), cfg)
       IN  /\ input_ids' = ids
           /\ sep_positions' = seps
           /\ input_ids_list' = AppendIds(input_ids_list, ids, seps)
           /\ sep_positions_list' = AppendSep(sep_positions_list, seps)
           /\ labels_list' = AppendLabels(labels_list, decoder_token_ids, seps)
    /\ pc' = "loop"
    /\ UNCHANGED <<cfg, raw, data, step, analysis>>
    /\ UNCHANGED mainVars

\* the block under "if model_args.print_processed_input:" raises:
\* input_ids_list[0] of an empty list is an IndexError; with one offset in
\* sep_positions_list[0] the loop over range(len(sep)-1) has no iteration
\* and item[end:] reads the local end before any assignment
\* (UnboundLocalError)
PrintRaises(ids_list, seps_list) ==
    \/ Len(ids_list) = 0
    \/ Len(seps_list[1]) = 1

\* After the loop: padded_sep_positions_list, data, the block of
\* print_processed_input when the option is set, return. An exception of
\* that block leaves the function before it returns.
FinishBatch(print_processed_input) ==
    /\ pc = "loop"
    /\ Len(raw) >= 1
    /\ IF print_processed_input /\ PrintRaises(input_ids_list, sep_positions_list)
       THEN /\ pc' = "print_raised"
            /\ UNCHANGED data
       ELSE /\ data' = [input_ids |-> input_ids_list,
                        labels |-> labels_list,
                        sep_positions |-> pad_customized_list(sep_positions_list)]
            /\ pc' = "done"
    /\ UNCHANGED <<cfg, raw, input_ids, sep_positions, input_ids_list, labels_list,
                   sep_positions_list, step, analysis>>
    /\ UNCHANGED mainVars

\* One iteration of the prediction loop over the encoded rows (batch size 1):
\* the segments of the cross-attention path and the rows and segments of the
\* self-attention path, from the row's stored sep_positions.
AnalyzeExample ==
    /\ pc = "done"
    /\ cfg.model_analysis
    /\ step < Len(data.input_ids)
    /\ LET seps == data.sep_positions[step + 1]
           src_len == Len(data.input_ids[step + 1])
       IN  analysis' = Append(analysis,
               [cross_segments |-> IF cfg.analyze_cross_attn
                                   THEN DocSegments(seps, src_len) ELSE <<>>,
                self_rows |-> IF cfg.analyze_self_attn THEN seps ELSE <<>>,
                self_segments |-> IF cfg.analyze_self_attn
                                  THEN DocSegments(seps, src_len) ELSE <<>>])
    /\ step' = step + 1
    /\ UNCHANGED <<cfg, raw, pc, input_ids, sep_positions, input_ids_list,
                   labels_list, sep_positions_list, data>>
    /\ UNCHANGED mainVars

Next ==
    \/ \E source \in Sources, target \in Targets : BuildExample(source, target)
    \/ FinishExample
    \/ \E print_processed_input \in BOOLEAN : FinishBatch(print_processed_input)
    \/ AnalyzeExample

Spec == Init /\ [][Next]_vars

\* The same program on batches of a single example.
NextOne ==
    \/ \E source \in Sources, target \in Targets :
          Len(raw) = 0 /\ BuildExample(source, target)
    \/ FinishExample
    \/ \E print_processed_input \in BOOLEAN : FinishBatch(print_processed_input)
    \/ AnalyzeExample

SpecOne == Init /\ [][NextOne]_vars

\* ------------------------------------- pad_customized_list on its own
\* the integer lists handed to the padder: up to MaxPadRows lists of up to
\* MaxPadLen integers each
PadRows == UNION { [1..n -> {SepPad, 0}] : n \in 0..MaxPadLen }
PadInputs == UNION { [1..m -> PadRows] : m \in 0..MaxPadRows }

InitPad ==
    /\ cfg \in { c \in Configs : c.max_source_length = MaxSrcLen /\ ~c.model_analysis
                                 /\ ~c.analyze_cross_attn /\ ~c.analyze_self_attn
                                 /\ ~c.per_passage_source_length_limit
                                 /\ ~c.pad_to_max_length /\ c.ignore_pad_token_for_loss }
    /\ raw = <<>>
    /\ pc = "pad"
    /\ input_ids = <<>>
    /\ sep_positions = <<>>
    /\ input_ids_list = <<>>
    /\ labels_list = <<>>
    /\ sep_positions_list \in PadInputs
    /\ data = NoData
    /\ step = 0
    /\ analysis = <<>>
    /\ MainInMap

\* padded_sep_positions_list = pad_customized_list(sep_positions_list)
PadCall ==
    /\ pc = "pad"
    /\ data' = [data EXCEPT !.sep_positions = pad_customized_list(sep_positions_list)]
    /\ pc' = "padded"
    /\ UNCHANGED <<cfg, raw, input_ids, sep_positions, input_ids_list, labels_list,
                   sep_positions_list, step, analysis>>
    /\ UNCHANGED mainVars

NextPad == PadCall

SpecPad == InitPad /\ [][NextPad]_vars

\* ------------------------------------------------------- main's phases
\* what the loop body makes of one example
EncodedExample(ex, c) ==
    LET enc == EncodeReviews(Reviews(ex.source), 1, <<>>, <<0>>, c)
        ids == Append(enc.input_ids, eos_token_id)
        seps == DropLastSep(enc.sep_positions)
        long == Len(ids) > c.max_source_length
    IN  [input_ids |-> IF long THEN TruncateIds(ids, c.max_source_length) ELSE ids,
         sep_positions |-> IF long THEN TruncateSep(seps, c.max_source_length) ELSE seps,
         labels |-> MaskLabels(EncodeTarget(ex.target, c), c)]

\* the encodings of the examples of exs that keep an offset, in the order of exs
RECURSIVE EmittedRows(_, _)
EmittedRows(exs, c) ==
    IF Len(exs) = 0 THEN <<>>
    ELSE LET e == EncodedExample(Head(exs), c)
         IN  (IF Len(e.sep_positions) = 0 THEN <<>> ELSE <<e>>)
                 \o EmittedRows(Tail(exs), c)

InitMain ==
    /\ cfg \in MainConfigs
    /\ args \in Args
    /\ main_pc = "start"
    /\ config = NoFlags
    /\ model = NoAttributes
    /\ raw = <<>>
    /\ pc = "idle"
    /\ input_ids = <<>>
    /\ sep_positions = <<>>
    /\ input_ids_list = <<>>
    /\ labels_list = <<>>
    /\ sep_positions_list = <<>>
    /\ data = NoData
    /\ step = 0
    /\ analysis = <<>>
    /\ performed = <<>>
    /\ files = <<>>
    /\ writer = <<>>
    /\ output = NoOutput
    /\ processed_cross_attn = <<>>
    /\ cross_attn_analysis_list = <<>>
    /\ self_attn_analysis_list = <<>>
    /\ self_doc_attn_analysis_list = <<>>

\* The flags copied to the configuration object and to the model, then the
\* choice of column_names: with no do_* flag main returns.
ConfigureModel ==
    /\ main_pc = "start"
    /\ config' = ConfigFlags(args)
    /\ model' = ModelAttributes(args)
    /\ main_pc' = IF args.do_train \/ args.do_eval \/ args.do_predict
                  THEN "configured" ELSE "finished"
    /\ UNCHANGED <<cfg, data, step, encVars, args, performed, files, writer, output,
                   processed_cross_attn, cross_attn_analysis_list,
                   self_attn_analysis_list, self_doc_attn_analysis_list>>

\* The three dataset maps, print_processed_input unset. The test set is one
\* batch of raw examples, of which main keeps the encoding; the train and
\* validation sets are not looked into.
PreprocessDatasets(batch) ==
    /\ main_pc = "configured"
    /\ performed' = performed
            \o (IF args.do_train THEN <<"map_train">> ELSE <<>>)
            \o (IF args.do_eval THEN <<"map_validation">> ELSE <<>>)
            \o (IF args.do_predict THEN <<"map_test">> ELSE <<>>)
    /\ IF ~args.do_predict
       THEN /\ main_pc' = "preprocessed"
            /\ UNCHANGED <<input_ids_list, labels_list, sep_positions_list, data>>
       ELSE IF PreprocessRaises(batch, cfg)
       THEN /\ main_pc' = "map_error"
            /\ UNCHANGED <<input_ids_list, labels_list, sep_positions_list, data>>
       ELSE LET rows == EmittedRows(batch, cfg)
            IN  /\ main_pc' = "preprocessed"
                /\ input_ids_list' = [r \in 1..Len(rows) |-> rows[r].input_ids]
                /\ labels_list' = [r \in 1..Len(rows) |-> rows[r].labels]
                /\ sep_positions_list' = [r \in 1..Len(rows) |-> rows[r].sep_positions]
                /\ data' = [input_ids |-> input_ids_list',
                            labels |-> labels_list',
                            sep_positions |-> pad_customized_list(sep_positions_list')]
    /\ UNCHANGED <<cfg, raw, pc, input_ids, sep_positions, step, analysis, args,
                   config, model, files, writer, output, processed_cross_attn,
                   cross_attn_analysis_list, self_attn_analysis_list,
                   self_doc_attn_analysis_list>>

\* if training_args.do_train: trainer.train, save_model, save_metrics,
\* save_state, config.save_pretrained
TrainModel ==
    /\ main_pc = "preprocessed"
    /\ main_pc' = "trained"
    /\ performed' = IF args.do_train THEN Append(performed, "train") ELSE performed
    /\ files' = IF args.do_train
                THEN files \o << [name |-> "model", content |-> <<>>],
                                 [name |-> "train_results", content |-> <<>>],
                                 [name |-> "trainer_state", content |-> <<>>],
                                 [name |-> "config", content |-> <<>>] >>
                ELSE files
    /\ UNCHANGED <<cfg, data, step, encVars, args, config, model, writer, output,
                   processed_cross_attn, cross_attn_analysis_list,
                   self_attn_analysis_list, self_doc_attn_analysis_list>>

\* if training_args.do_eval: trainer.evaluate, save_metrics
Evaluate ==
    /\ main_pc = "trained"
    /\ main_pc' = "evaluated"
    /\ performed' = IF args.do_eval THEN Append(performed, "evaluate") ELSE performed
    /\ files' = IF args.do_eval
                THEN Append(files, [name |-> "eval_results", content |-> <<>>])
                ELSE files
    /\ UNCHANGED <<cfg, data, step, encVars, args, config, model, writer, output,
                   processed_cross_attn, cross_attn_analysis_list,
                   self_attn_analysis_list, self_doc_attn_analysis_list>>

\* if training_args.do_predict: the empty analysis lists, the check of
\* model_analysis_file, then open(prediction_file, "w")
StartPredict ==
    /\ main_pc = "evaluated"
    /\ IF ~args.do_predict
       THEN main_pc' = "finished" /\ UNCHANGED files
       ELSE IF cfg.model_analysis /\ ~args.model_analysis_file
       THEN main_pc' = "config_error" /\ UNCHANGED files
       ELSE /\ main_pc' = "predicting"
            /\ files' = Append(files, [name |-> "pred.txt", content |-> <<>>])
    /\ UNCHANGED <<cfg, data, step, encVars, args, config, model, performed, writer,
                   output, processed_cross_attn, cross_attn_analysis_list,
                   self_attn_analysis_list, self_doc_attn_analysis_list>>

\* One iteration of "for step, inputs in enumerate(test_dataloader)":
\* generate, the analysis of the example when model_analysis is set, then
\* the decoded text written to pred.txt. No statement of the iteration is
\* inside a try: an IndexError of cross_attn[idx] leaves main.
PredictExample(out) ==
    /\ main_pc = "predicting"
    /\ step < Len(data.input_ids)
    /\ performed' = Append(performed, "generate")
    /\ output' = IF cfg.model_analysis THEN out ELSE NoOutput
    /\ LET e == step + 1
           seps == data.sep_positions[e]
           src_len == Len(data.input_ids[e])
           cross == cfg.model_analysis /\ cfg.analyze_cross_attn
           self == cfg.model_analysis /\ cfg.analyze_self_attn
           cross_attentions == CrossAttentions(e, out.steps, src_len)
           selected == SelectedCrossAttention(out.beam_indices, cross_attentions)
           doc_self_attn ==
               DocAttn(DocTokenAttn(AvgSelfAttention(EncoderAttentions(e, src_len)),
                                    seps, src_len),
                       seps, src_len)
       IN  IF cross /\ SelectionRaises(out.beam_indices, cross_attentions)
           THEN /\ main_pc' = "analysis_error"
                /\ UNCHANGED <<step, writer, processed_cross_attn,
                               cross_attn_analysis_list, self_attn_analysis_list,
                               self_doc_attn_analysis_list>>
           ELSE /\ main_pc' = "predicting"
                /\ step' = step + 1
                /\ processed_cross_attn' =
                       IF cross THEN selected ELSE processed_cross_attn
                /\ cross_attn_analysis_list' =
                       IF cross
                       THEN Append(cross_attn_analysis_list,
                                   SoftmaxStd(DocAttn(selected, seps, src_len)))
                       ELSE cross_attn_analysis_list
                /\ self_doc_attn_analysis_list' =
                       IF self
                       THEN Append(self_doc_attn_analysis_list,
                                   SelfDocAttnWeights(doc_self_attn))
                       ELSE self_doc_attn_analysis_list
                /\ self_attn_analysis_list' =
                       IF self
                       THEN Append(self_attn_analysis_list, SoftmaxStd(doc_self_attn))
                       ELSE self_attn_analysis_list
                /\ writer' = Append(writer, e)
    /\ UNCHANGED <<cfg, data, encVars, args, config, model, files>>

FinishPredictCrossFirst ==
    /\ main_pc = "predicting"
    /\ step = Len(data.input_ids)
    /\ main_pc' = "finished"
    /\ performed' = Append(performed, "compute_metrics")
    /\ files' = files
          \o << [name |-> "result.json", content |-> <<>>] >>
          \o (IF cfg.model_analysis
              THEN << [name |-> "model_analysis_file",
                       content |->
                         << <<"decoder cross attn std dev:", cross_attn_analysis_list>>,
                            <<"encoder self attn std dev:", self_attn_analysis_list>>,
                            <<"encoder self doc attn avg:", self_doc_attn_analysis_list>> >>] >>
              ELSE <<>>)
    /\ UNCHANGED <<cfg, data, step, encVars, args, config, model, writer, output,
                   processed_cross_attn, cross_attn_analysis_list,
                   self_attn_analysis_list, self_doc_attn_analysis_list>>

\* After the loop: result.json, then the analysis file with its three
\* sections when model_analysis is set.
FinishPredict ==
    /\ main_pc = "predicting"
    /\ step = Len(data.input_ids)
    /\ main_pc' = "finished"
    /\ performed' = Append(performed, "compute_metrics")
    /\ files' = files
          \o << [name |-> "result.json", content |-> <<>>] >>
          \o (IF cfg.model_analysis
              THEN << [name |-> "model_analysis_file",
                       content |->
                         << <<"encoder self attn std dev:", self_attn_analysis_list>>,
                            <<"encoder self doc attn avg:", self_doc_attn_analysis_list>>,
                            <<"decoder cross attn std dev:", cross_attn_analysis_list>> >>] >>
              ELSE <<>>)
    /\ UNCHANGED <<cfg, data, step, encVars, args, config, model, writer, output,
                   processed_cross_attn, cross_attn_analysis_list,
                   self_attn_analysis_list, self_doc_attn_analysis_list>>

\* main with every combination of its flags, on test sets of one example
\* and generations of one decoding step
MainBatches == { b \in TestBatches : Len(b) = 1 }
MainOutputs == { o \in GenOutputs : o.steps = 1 }

NextMain ==
    \/ ConfigureModel
    \/ \E batch \in MainBatches : PreprocessDatasets(batch)
    \/ TrainModel
    \/ Evaluate
    \/ StartPredict
    \/ \E out \in MainOutputs : PredictExample(out)
    \/ FinishPredict

SpecMain == InitMain /\ [][NextMain]_vars

\* a prediction-only run with the architecture flags unset, on every test
\* set and every generation output
InitPredict ==
    /\ InitMain
    /\ args.do_predict /\ ~args.do_train /\ ~args.do_eval
    /\ ~args.enc_cross_doc /\ ~args.doc_dec /\ ~args.no_posres_only

NextPredict ==
    \/ ConfigureModel
    \/ \E batch \in TestBatches : PreprocessDatasets(batch)
    \/ TrainModel
    \/ Evaluate
    \/ StartPredict
    \/ \E out \in GenOutputs : PredictExample(out)
    \/ FinishPredict

SpecPredict == InitPredict /\ [][NextPredict]_vars

\* the same prediction-only run on test sets of a single example
NextPredictOne ==
    \/ ConfigureModel
    \/ \E batch \in MainBatches : PreprocessDatasets(batch)
    \/ TrainModel
    \/ Evaluate
    \/ StartPredict
    \/ \E out \in GenOutputs : PredictExample(out)
    \/ FinishPredict

SpecPredictOne == InitPredict /\ [][NextPredictOne]_vars

\* =============================================================== claims
\* the number of content words of a source text
WordCount(text) == Cardinality({ i \in 1..Len(text) : text[i] # REVBREAK })

\* the example the loop took last
LastRaw == raw[Len(raw)]

\* the last example was appended to the three lists: input_ids and
\* sep_positions hold what was appended
LastEmitted == pc = "loop" /\ Len(raw) >= 1 /\ Len(sep_positions) >= 1

\* without fixed-length padding, the built sequence of the last example
\* (markers, content, terminal marker) is longer than max_source_length
LastWasLong ==
    /\ ~cfg.pad_to_max_length
    /\ ~cfg.per_passage_source_length_limit
    /\ Len(Reviews(LastRaw.source)) + WordCount(LastRaw.source) + 1 > cfg.max_source_length

StrictlyIncreasing(seq) == \A i \in 1..(Len(seq) - 1) : seq[i] < seq[i + 1]

\* C1: every emitted example has at least one boundary offset, its first
\* offset is 0, its offsets are strictly increasing and every offset is below
\* the length of its token sequence.
C1_OffsetsWellFormed ==
    /\ Len(sep_positions_list) = Len(input_ids_list)
    /\ \A r \in 1..Len(sep_positions_list) :
          LET seps == sep_positions_list[r]
          IN  /\ Len(seps) >= 1
              /\ seps[1] = 0
              /\ StrictlyIncreasing(seps)
              /\ \A i \in 1..Len(seps) : seps[i] < Len(input_ids_list[r])

\* an emitted example that the global truncation cut and that keeps two offsets
C1_Witness ==
    /\ LastEmitted
    /\ LastWasLong
    /\ Len(sep_positions_list[Len(sep_positions_list)]) = 2

\* the tokens passages 1..n of the reviews put into input_ids, markers included
RECURSIVE TokensOfFirst(_, _, _)
TokensOfFirst(reviews, n, c) ==
    IF n = 0 THEN 0
    ELSE TokensOfFirst(reviews, n - 1, c) + 1 + Len(RevIds(reviews[n], Len(reviews), c))

\* C2: with k >= 1 non-empty passages, the boundary list held before the
\* global truncation has exactly k entries, starts with 0, is strictly
\* increasing, and its i-th entry is the number of tokens passages 1..i-1
\* contributed (it is where the i-th marker stands).
C2_OffsetsBeforeTruncation ==
    (pc = "built" /\ Len(Reviews(LastRaw.source)) >= 1) =>
        LET reviews == Reviews(LastRaw.source)
        IN  /\ Len(sep_positions) = Len(reviews)
            /\ sep_positions[1] = 0
            /\ StrictlyIncreasing(sep_positions)
            /\ \A i \in 1..Len(sep_positions) :
                  /\ sep_positions[i] = TokensOfFirst(reviews, i - 1, cfg)
                  /\ sep_positions[i] < Len(input_ids)
                  /\ input_ids[sep_positions[i] + 1] = bos_token_id

\* two passages built, the second offset after a passage with content
C2_Witness ==
    /\ pc = "built"
    /\ Len(Reviews(LastRaw.source)) = 2
    /\ Len(sep_positions) = 2
    /\ sep_positions[2] > 1

Processed == IF pc = "built" THEN SubSeq(raw, 1, Len(raw) - 1) ELSE raw

\* the number of examples of exs that have at least one non-empty passage
RECURSIVE UsableCount(_)
UsableCount(exs) ==
    IF Len(exs) = 0 THEN 0
    ELSE (IF Len(Reviews(Head(exs).source)) >= 1 THEN 1 ELSE 0) + UsableCount(Tail(exs))

\* C4: an example with no usable passage is left out of the output, the
\* encoding of the batch does not raise, and every other example is emitted.
C4_DropNeverRaises ==
    /\ pc # "raised"
    /\ pc \in {"loop", "done"} => Len(input_ids_list) = UsableCount(raw)

\* C5: if every list is empty the padder returns the batch unchanged;
\* otherwise every output row has the batch's maximum length, begins with its
\* input list and holds -1 in all remaining positions.
C5_PadContract ==
    pc = "padded" =>
        LET in == sep_positions_list
            out == data.sep_positions
        IN  IF \A i \in 1..Len(in) : Len(in[i]) = 0
            THEN out = in
            ELSE /\ Len(out) = Len(in)
                 /\ \A i \in 1..Len(in) :
                       /\ Len(out[i]) = MaxLenOf(in)
                       /\ SubSeq(out[i], 1, Len(in[i])) = in[i]
                       /\ \A j \in (Len(in[i]) + 1)..Len(out[i]) : out[i][j] = SepPad

\* one [start, end) per real offset: each end is the next offset, the last
\* end is src_len
RealSegments(seps, src_len) ==
    [i \in 1..Len(seps) |->
        <<seps[i], IF i < Len(seps) THEN seps[i + 1] ELSE src_len>>]

\* C6: the segments of the cross-attention and self-attention paths of every
\* analyzed example are exactly one [start, end) per document of that
\* example, from its real offsets and its sequence length, and the rows the
\* self-attention path selects are its real offsets.
C6_SegmentsFromRealOffsets ==
    \A r \in 1..Len(analysis) :
        LET real == sep_positions_list[r]
            expected == RealSegments(real, Len(input_ids_list[r]))
        IN  /\ cfg.analyze_cross_attn => analysis[r].cross_segments = expected
            /\ cfg.analyze_self_attn =>
                  /\ analysis[r].self_segments = expected
                  /\ analysis[r].self_rows = real

\* C7: the three fields have the same number of rows, row i of each field is
\* the encoding of the same raw example, and the rows keep the order of the
\* raw examples, a dropped example having no row in any field.
C7_RowsAligned ==
    pc \in {"loop", "built", "done"} =>
        LET rows == EmittedRows(Processed, cfg)
        IN  /\ Len(input_ids_list) = Len(rows)
            /\ Len(sep_positions_list) = Len(rows)
            /\ Len(labels_list) = Len(rows)
            /\ \A r \in 1..Len(rows) :
                  /\ input_ids_list[r] = rows[r].input_ids
                  /\ sep_positions_list[r] = rows[r].sep_positions
                  /\ labels_list[r] = rows[r].labels
            /\ pc = "done" =>
                  /\ Len(data.input_ids) = Len(rows)
                  /\ Len(data.labels) = Len(rows)
                  /\ Len(data.sep_positions) = Len(rows)
                  /\ \A r \in 1..Len(rows) :
                        /\ data.input_ids[r] = rows[r].input_ids
                        /\ data.labels[r] = rows[r].labels
                        /\ SubSeq(data.sep_positions[r], 1, Len(rows[r].sep_positions))
                              = rows[r].sep_positions

\* a returned batch of one row whose first example was dropped and whose
\* second example was emitted
C7_Witness ==
    /\ pc = "done"
    /\ Len(raw) = 2
    /\ Len(Reviews(raw[1].source)) = 0
    /\ Len(data.input_ids) = 1
    /\ Len(data.labels) = 1
    /\ Len(data.sep_positions) = 1

\* C8: with fixed-length padding and ignore_pad_token_for_loss, the emitted
\* labels have the length of the encoded target, -100 where the target holds
\* pad_token_id and the target's element elsewhere; in every other
\* configuration the emitted labels are the encoded target.
C8_LabelMasking ==
    [][(pc = "built" /\ Len(labels_list') = Len(labels_list) + 1) =>
          LET encoded == EncodeTarget(LastRaw.target, cfg)
              out == labels_list'[Len(labels_list')]
          IN  IF cfg.pad_to_max_length /\ cfg.ignore_pad_token_for_loss
              THEN /\ Len(out) = Len(encoded)
                   /\ \A i \in 1..Len(encoded) :
                         out[i] = IF encoded[i] = pad_token_id
                                  THEN IgnoreIndex ELSE encoded[i]
              ELSE out = encoded]_vars

\* emitted labels that hold -100 after a real token
C8_Witness ==
    /\ LastEmitted
    /\ cfg.pad_to_max_length
    /\ cfg.ignore_pad_token_for_loss
    /\ LET out == labels_list[Len(labels_list)]
       IN  /\ out[Len(out)] = IgnoreIndex
           /\ \E i \in 1..Len(out) : out[i] = eos_token_id

\* the exclusive end of each passage's part of input_ids: the next offset, and
\* for the last offset the place of the terminal marker
PartEnds(ids, seps) == Tail(seps) \o <<Len(ids) - 1>>

\* C9: with per_passage_source_length_limit and k >= 1 passages, each passage
\* puts into the sequence its marker followed by at most
\* max(0, (max_source_length - k) // k) tokens.
C9_PerPassageCap ==
    (pc = "built" /\ cfg.per_passage_source_length_limit) =>
        LET k == Len(Reviews(LastRaw.source))
            cap == Max(0, (cfg.max_source_length - k) \div k)
            ends == PartEnds(input_ids, sep_positions)
        IN  /\ Len(sep_positions) = k
            /\ \A i \in 1..Len(sep_positions) :
                  /\ input_ids[sep_positions[i] + 1] = bos_token_id
                  /\ ends[i] - sep_positions[i] - 1 <= cap

IsPrefix(a, b) == Len(a) <= Len(b) /\ a = SubSeq(b, 1, Len(a))

\* C10: in an emitted example, the tokens after the marker at offset i and
\* before the next offset (before the terminal marker for the last offset)
\* are the words of the i-th non-empty passage or a prefix of them, with no
\* start, end or pad token among them.
C10_RoundTrip ==
    LastEmitted =>
        LET reviews == Reviews(LastRaw.source)
            ends == PartEnds(input_ids, sep_positions)
        IN  \A i \in 1..Len(sep_positions) :
                LET seg == SubSeq(input_ids, sep_positions[i] + 2, ends[i])
                IN  /\ input_ids[sep_positions[i] + 1] = bos_token_id
                    /\ IsPrefix(seg, reviews[i])
                    /\ \A j \in 1..Len(seg) :
                          seg[j] \notin {bos_token_id, eos_token_id, pad_token_id}

\* C11: when model analysis is requested and no analysis file name is given,
\* the configuration error is raised before any processing: at that point no
\* dataset has been preprocessed, no training, evaluation or generation has
\* been performed and no output file has been written.
C11_ConfigErrorBeforeProcessing ==
    main_pc = "config_error" => performed = <<>> /\ files = <<>>

\* the prediction phase has ended: normally, or by an exception raised in
\* the analysis of an example
PredictEnded ==
    args.do_predict /\ main_pc \in {"finished", "analysis_error"}

\* C12: an error raised while one example is analyzed does not abort
\* generation: when the prediction phase has ended the text of every test
\* example, the failing one and the later ones included, has been written
\* to pred.txt in order, and with model analysis the analysis values of the
\* other examples have been written to the analysis file.
C12_AnalysisErrorNotFatal ==
    PredictEnded =>
        /\ writer = [i \in 1..Len(data.input_ids) |-> i]
        /\ cfg.model_analysis =>
              \E f \in 1..Len(files) : files[f].name = "model_analysis_file"

\* the cross-attention path has run on the output of the last generation
CrossAnalyzed ==
    /\ cfg.model_analysis /\ cfg.analyze_cross_attn
    /\ main_pc \in {"predicting", "finished", "analysis_error"}
    /\ output # NoOutput

\* C13: if some entry of the beam backtrace of an example is not a slot
\* index in 0..beam_count-1 (too large or negative), the cross-attention
\* analysis of that example ends in an error and no cross-attention
\* dispersion is recorded for it.
C13_BadSlotRaises ==
    (/\ CrossAnalyzed
     /\ \E t \in 1..Len(output.beam_indices) :
           output.beam_indices[t] \notin 0..(NumBeams - 1))
    => /\ main_pc = "analysis_error"
       /\ Len(cross_attn_analysis_list) = step

\* C14: for every test example with exactly one document (its offsets are
\* the single offset 0) the analysis does not raise on a beam backtrace of
\* slot indices, and the cross-attention dispersion and the self-attention
\* dispersion it records are 0, whatever the generated length.
C14_SingleDocumentZero ==
    main_pc \in {"predicting", "finished", "analysis_error"} =>
        /\ \A r \in 1..step :
              sep_positions_list[r] = <<0>> =>
                 /\ (cfg.model_analysis /\ cfg.analyze_cross_attn)
                       => cross_attn_analysis_list[r] = 0
                 /\ (cfg.model_analysis /\ cfg.analyze_self_attn)
                       => self_attn_analysis_list[r] = 0
        /\ (main_pc = "analysis_error" /\ sep_positions_list[step + 1] = <<0>>)
              => \E t \in 1..Len(output.beam_indices) :
                    output.beam_indices[t] \notin 0..(NumBeams - 1)

\* C15: what the loop emits for a raw example (token ids, unpadded offsets,
\* labels, or nothing) is a function of that example and of the
\* configuration alone: at whatever position of the batch the example
\* stands and whatever was encoded before it, the iteration appends the
\* same encoding, and an example equal to an earlier example of the batch
\* gets a row equal to an earlier row.
C15_Independent ==
    [][ (pc = "built" /\ pc' = "loop") =>
          LET e == EncodedExample(LastRaw, cfg)
              emitted == Len(e.sep_positions) > 0
          IN  /\ input_ids_list' =
                    IF emitted THEN Append(input_ids_list, e.input_ids)
                    ELSE input_ids_list
              /\ sep_positions_list' =
                    IF emitted THEN Append(sep_positions_list, e.sep_positions)
                    ELSE sep_positions_list
              /\ labels_list' =
                    IF emitted THEN Append(labels_list, e.labels) ELSE labels_list
              /\ \A i \in 1..(Len(raw) - 1) :
                    (raw[i] = LastRaw /\ Len(input_ids_list') > Len(input_ids_list)) =>
                       \E r \in 1..Len(input_ids_list) :
                          /\ input_ids_list[r] = input_ids_list'[Len(input_ids_list')]
                          /\ sep_positions_list[r]
                                = sep_positions_list'[Len(sep_positions_list')]
                          /\ labels_list[r] = labels_list'[Len(labels_list')]
      ]_vars

\* a batch whose second example equals its first, both emitted
C15_Witness ==
    /\ pc = "loop"
    /\ Len(raw) = 2
    /\ raw[1] = raw[2]
    /\ Len(input_ids_list) = 2
    /\ input_ids_list[1] = input_ids_list[2]
    /\ Len(sep_positions_list[2]) = 2

\* C16: the iteration that ends an example keeps, of the offsets built, the
\* ones below max_source_length - 1 when it truncates and all of them when
\* it does not, in their order; every offset o it keeps has the
\* document-start marker at position o of the final token ids and is below
\* their last position, which holds the terminal marker.
C16_RetainedOffsets ==
    [][ (pc = "built" /\ pc' = "loop") =>
          LET long == Len(input_ids) > cfg.max_source_length
          IN  /\ IsPrefix(sep_positions', sep_positions)
              /\ \A k \in 1..Len(sep_positions) :
                    k <= Len(sep_positions') <=>
                       (~long \/ sep_positions[k] < cfg.max_source_length - 1)
              /\ \A k \in 1..Len(sep_positions') :
                    /\ sep_positions'[k] < Len(input_ids') - 1
                    /\ input_ids'[sep_positions'[k] + 1] = bos_token_id
              /\ Len(sep_positions') >= 1 =>
                    input_ids'[Len(input_ids')] = eos_token_id
      ]_vars

\* an emitted example of two passages whose second marker stood at position
\* max_source_length - 1, where the truncation puts the terminal marker
C16_Witness ==
    /\ LastEmitted
    /\ cfg.max_source_length = 3
    /\ ~cfg.pad_to_max_length
    /\ Len(Reviews(LastRaw.source)) = 2
    /\ Len(Reviews(LastRaw.source)[1]) = 1
    /\ sep_positions = <<0>>
    /\ Len(input_ids) = 3
    /\ input_ids[3] = eos_token_id

\* the sum over the layers and heads of the cross-attention weights of test
\* example e at decoding step t, beam slot b and source position p
CrossWeightSum(e, t, b, p) ==
    NumLayers * NumHeads * 10 * (1000 * e + 100 * t + 10 * b + p)
        + NumHeads * ((NumLayers * (NumLayers + 1)) \div 2)
        + NumLayers * ((NumHeads * (NumHeads + 1)) \div 2)

Reports == SelectSeq(files, LAMBDA f : f.name = "model_analysis_file")

C19_DependentFlags ==
    main_pc # "start" =>
        /\ ~args.enc_cross_doc =>
              /\ ~config.enc_cross_doc /\ ~model.enc_cross_doc
              /\ ~config.doc_dec /\ ~config.no_posres_only
              /\ ~model.doc_dec
        /\ config.doc_dec = model.doc_dec

\* C20: with max_source_length >= 2 an example is dropped exactly when it has
\* no non-empty passage: encoding never fails on such an example, the
\* iteration of an example emits it exactly when it has a non-empty passage,
\* whatever the lengths of its passages and whatever the truncation removes,
\* the emitted rows are as many as the examples with a non-empty passage,
\* and every emitted row keeps 0 as its first offset.
C20_DroppedIffNoPassage ==
    cfg.max_source_length >= 2 =>
        /\ pc # "raised"
        /\ (pc = "loop" /\ Len(raw) >= 1) =>
              (Len(sep_positions) >= 1 <=> Len(Reviews(LastRaw.source)) >= 1)
        /\ pc \in {"loop", "done"} =>
              /\ Len(sep_positions_list) = UsableCount(raw)
              /\ \A r \in 1..Len(sep_positions_list) :
                    /\ Len(sep_positions_list[r]) >= 1
                    /\ sep_positions_list[r][1] = 0

\* C21: print_processed_input changes nothing but logging: whether or not
\* the option is set, the step that ends a batch, also a batch whose first
\* emitted example has a single document or a batch from which every example
\* was dropped, does not raise and returns the three lists collected by the
\* loop, the offsets padded.
C21_PrintOnlyLogs ==
    [][ (pc = "loop" /\ pc' \in {"done", "print_raised"}) =>
          /\ pc' = "done"
          /\ data' = [input_ids |-> input_ids_list,
                      labels |-> labels_list,
                      sep_positions |-> pad_customized_list(sep_positions_list)]
      ]_vars

====
